---------------------------- MODULE Spec2Model ----------------------------
(***************************************************************************)
(* Model of the deployment decision engine                                 *)
(* (scripts/ai-agents/deployment-decision.py, class AIDeploymentEngine).   *)
(*                                                                         *)
(* One process runs the pipeline                                           *)
(*   __init__/load_deployment_history -> calculate_risk_score (the five    *)
(*   calculators) -> get_ai_risk_assessment -> recommend_deployment_       *)
(*   strategy -> the three output files -> save_deployment_record.         *)
(* The environment (the history file found at start, what git answers,     *)
(* what the advisory service answers) is fixed by Init; the process may be *)
(* killed between any two steps.                                           *)
(*                                                                         *)
(* Numbers.  A score s in [0,1] is held as the integer s * Scale           *)
(* ("points").  overall_risk_score is held as a numerator over             *)
(* OverallDen = 5 * Scale, so that sum(values) / len(values) of five       *)
(* factors is exact.  Arithmetic is exact rational arithmetic; the         *)
(* rounding of Python's binary floating point is not modelled.             *)
(***************************************************************************)
EXTENDS Integers, Sequences, FiniteSets, TLC

VARIABLES
    pc,                  \* where the process is
    file,                \* deployment-history.json on disk
    startFile,           \* deployment-history.json as the process found it
    deployment_history,  \* self.deployment_history
    git,                 \* what `git diff ... HEAD~1` answers in this run
    service,             \* what the advisory service does in this run
    risk_factors,        \* self.risk_factors
    assessment,          \* the value get_ai_risk_assessment returned
    outputs,             \* deployment-strategy.txt, risk-score.txt, deployment-assessment.json
    error,               \* the exception that ended the process, or "none"
    killed               \* the process was killed from outside

vars == <<pc, file, startFile, deployment_history, git, service,
          risk_factors, assessment, outputs, error, killed>>

----------------------------------------------------------------------------
(* Bounds of the model *)

\* Longest changed-file list git answers with.
MaxFiles == 2
\* Longest advisory response, in tokens.
MaxLen == 4
\* Longest history file the long-history specification starts from.
MaxLoaded == 52
\* Longest history file the pipeline specification starts from.
MaxSmallHistory == 2
\* The grid of factor scores of the fallback specification: k / GridSteps.
GridSteps == 10

(* Program constants *)

\* "Keep only last 50 deployments"
MaxDeployments == 50
\* timedelta(days=7)
RecentDays == 7
\* complexity_score / 100
ComplexityDivisor == 100
\* lines_changed > 500, lines_changed > 200
LargeChange == 500
MediumChange == 200

\* 1.0 in points; a multiple of 100, 10, 3 and 4.
Scale == 6 * 100
\* 1.0 as an overall_risk_score numerator: the mean of five factors is sum / 5.
NumFactors == 5
OverallDen == NumFactors * Scale

Min(a, b) == IF a < b THEN a ELSE b
Max(a, b) == IF a > b THEN a ELSE b

RECURSIVE SeqSum(_)
SeqSum(s) == IF s = <<>> THEN 0 ELSE Head(s) + SeqSum(Tail(s))

\* Python's s[i:j] for 0 <= i, 0 <= j on a 0-indexed sequence.
Slice(s, i, j) ==
    IF i >= Min(j, Len(s)) THEN <<>> ELSE SubSeq(s, i + 1, Min(j, Len(s)))

\* All sequences over S of length at most n.
RECURSIVE SeqsUpTo(_, _)
SeqsUpTo(S, n) ==
    IF n = 0 THEN {<<>>}
    ELSE LET shorter == SeqsUpTo(S, n - 1)
         IN  shorter \cup {Append(s, x) : s \in {t \in shorter : Len(t) = n - 1}, x \in S}


\* What a call returns: a value, or the exception it raises.
Return(v) == [ok |-> TRUE, value |-> v, exc |-> "none"]
Raise(e, v) == [ok |-> FALSE, value |-> v, exc |-> e]

----------------------------------------------------------------------------
(* The history file and its records *)

\* A record of the history.  dated tells what d['timestamp'] is: "iso" (a
\* date, age days before the run), "absent" (no such key) or "bad" (a string
\* datetime.fromisoformat rejects).  status is "absent" when the record has
\* no such key.  id stands for the content that tells two records apart:
\* 0 in the record this run makes, the position in the file for the others.
Record(i, dated, age, st, rf, a) ==
    [id |-> i, dated |-> dated, age |-> age, status |-> st,
     risk_score |-> a.overall_risk_score, strategy |-> a.recommended_strategy,
     risk_factors |-> rf, assessment |-> a]

\* deployment-history.json: absent, unreadable (open() raises
\* PermissionError), corrupt (not JSON), a JSON document, or, while
\* open(..., 'w') / json.dump is under way, truncated to nothing or holding
\* the first records only.
AbsentFile == [kind |-> "absent", deployments |-> <<>>]
UnreadableFile == [kind |-> "unreadable", deployments |-> <<>>]
CorruptFile == [kind |-> "corrupt", deployments |-> <<>>]
JsonFile(ds) == [kind |-> "json", deployments |-> ds]
TruncatedFile == [kind |-> "truncated", deployments |-> <<>>]
PartialFile(ds) == [kind |-> "partial", deployments |-> ds]

\* load_deployment_history: only FileNotFoundError is caught.
load_deployment_history(f) ==
    CASE f.kind = "absent" -> Return(<<>>)
      [] f.kind = "json" -> Return(f.deployments)
      [] f.kind = "unreadable" -> Raise("PermissionError", <<>>)
      [] OTHER -> Raise("JSONDecodeError", <<>>)

----------------------------------------------------------------------------
(* What git answers, and the four calculators that read it *)

performance_keywords ==
    {"database", "query", "loop", "recursive", "async", "await",
     "promise", "timeout", "cache", "memory", "cpu", "optimization"}

\* A changed file: its name's traits, whether open() succeeds on it, the
\* number of complexity indicators in its content, and what its part of
\* the diff text holds.
ChangedFile(name, ext, testlike, manifest, readable, indicators, marker, keywords, lines) ==
    [name |-> name, ext |-> ext, testlike |-> testlike, manifest |-> manifest,
     readable |-> readable, indicators |-> indicators, marker |-> marker,
     keywords |-> keywords, lines |-> lines]

FileCatalogue ==
    { ChangedFile("src/app.py", "py", FALSE, FALSE, TRUE, 40, FALSE, {"loop"}, 120),
      ChangedFile("src/big.py", "py", FALSE, FALSE, TRUE, 130, TRUE,
                  {"database", "query", "cache", "memory"}, 450),
      ChangedFile("tests/test_app.py", "py", TRUE, FALSE, TRUE, 70, FALSE, {}, 150),
      ChangedFile("web/gone.js", "js", FALSE, FALSE, FALSE, 0, FALSE, {"async", "await"}, 90),
      ChangedFile("requirements.txt", "txt", FALSE, TRUE, TRUE, 0, FALSE, {}, 3),
      ChangedFile("package.json", "json", FALSE, TRUE, TRUE, 0, TRUE, {}, 4) }

\* git's answer: the command fails (CalledProcessError: no HEAD~1, no
\* repository), or it lists the changed files and prints their diff.
GitFails == [ok |-> FALSE, files |-> {}]
GitAnswers(fs) == [ok |-> TRUE, files |-> fs]

RECURSIVE SetSum(_, _)
SetSum(S, field) ==
    IF S = {} THEN 0
    ELSE LET x == CHOOSE y \in S : TRUE
         IN  x[field] + SetSum(S \ {x}, field)

\* The calculator taking a failing git for an empty change set: 0.0.
ComplexityZeroOnFailure(g) ==
    LET counted == {f \in g.files : f.ext \in {"py", "js", "ts"} /\ f.readable}
    IN  Min((SetSum(counted, "indicators") * Scale) \div ComplexityDivisor, Scale)

\* analyze_code_complexity: indicators of the readable .py/.js/.ts files,
\* over 100, capped; a file that cannot be read counts nothing; 0.5 when
\* git fails.
analyze_code_complexity(g) ==
    IF ~g.ok THEN Scale \div 2
    ELSE LET counted == {f \in g.files : f.ext \in {"py", "js", "ts"} /\ f.readable}
             complexity_score == SetSum(counted, "indicators")
         IN  Min((complexity_score * Scale) \div ComplexityDivisor, Scale)

\* check_dependency_changes: 0.3 per manifest name in the diff, 0.2 for a
\* version marker, capped; 0.0 when git fails.
check_dependency_changes(g) ==
    IF ~g.ok THEN 0
    ELSE LET manifests == Cardinality({f \in g.files : f.manifest})
             marked == \E f \in g.files : f.marker
         IN  Min(manifests * ((3 * Scale) \div 10)
                   + (IF marked THEN (2 * Scale) \div 10 ELSE 0), Scale)

\* The calculator scoring a change set without source files as a failure: 0.5.
CoverageHalfWithoutSource(g) ==
    IF ~g.ok THEN Scale \div 2
    ELSE LET test_files == {f \in g.files : f.testlike}
             source_files == {f \in g.files : ~f.testlike /\ f.ext \in {"py", "js", "ts"}}
         IN  IF source_files = {} THEN Scale \div 2
             ELSE Max(0, Scale - (Cardinality(test_files) * Scale)
                                   \div Cardinality(source_files))

\* The calculator without the max(0, ...) clamp.
CoverageUnclamped(g) ==
    IF ~g.ok THEN Scale \div 2
    ELSE LET test_files == {f \in g.files : f.testlike}
             source_files == {f \in g.files : ~f.testlike /\ f.ext \in {"py", "js", "ts"}}
         IN  IF source_files = {} THEN 0
             ELSE Scale - (Cardinality(test_files) * Scale) \div Cardinality(source_files)

\* evaluate_test_coverage: 0.0 with no source file, else
\* max(0, 1 - tests/sources); 0.5 when git fails.
evaluate_test_coverage(g) ==
    IF ~g.ok THEN Scale \div 2
    ELSE LET test_files == {f \in g.files : f.testlike}
             source_files == {f \in g.files : ~f.testlike /\ f.ext \in {"py", "js", "ts"}}
         IN  IF source_files = {} THEN 0
             ELSE Max(0, Scale - (Cardinality(test_files) * Scale)
                                   \div Cardinality(source_files))

\* assess_performance_impact: 0.1 per keyword present in the diff, plus 0.3
\* or 0.2 for a large diff, capped; 0.0 when git fails.
assess_performance_impact(g) ==
    IF ~g.ok THEN 0
    ELSE LET present == {k \in performance_keywords : \E f \in g.files : k \in f.keywords}
             lines_changed == SetSum(g.files, "lines")
             volume == IF lines_changed > LargeChange THEN (3 * Scale) \div 10
                       ELSE IF lines_changed > MediumChange THEN (2 * Scale) \div 10
                       ELSE 0
         IN  Min(Cardinality(present) * (Scale \div 10) + volume, Scale)

----------------------------------------------------------------------------
(* analyze_deployment_history *)

\* datetime.fromisoformat(d['timestamp']): KeyError without the key,
\* ValueError on a string that is no ISO date.
TimestampError(d) ==
    IF d.dated = "absent" THEN "KeyError"
    ELSE IF d.dated = "bad" THEN "ValueError"
    ELSE "none"

\* The window taking in the record of exactly seven days ago.
IsRecentInclusive(d) == d.age <= RecentDays

\* timestamp > now - 7 days
IsRecent(d) == d.age < RecentDays

\* The list comprehension raises at the first record it cannot date; there
\* is no try around it.
analyze_deployment_history(ds) ==
    LET bad == {i \in 1..Len(ds) : TimestampError(ds[i]) # "none"}
    IN  IF bad # {}
        THEN Raise(TimestampError(ds[CHOOSE i \in bad : \A j \in bad : i <= j]), 0)
        ELSE LET recent_deployments == SelectSeq(ds, IsRecent)
                 IsFailure(d) == d.status = "failed"
                 failures == SelectSeq(recent_deployments, IsFailure)
             IN  IF recent_deployments = <<>> THEN Return(0)
                 ELSE Return((Len(failures) * Scale) \div Len(recent_deployments))

----------------------------------------------------------------------------
(* The advisory service and get_ai_risk_assessment *)

FactorNames ==
    <<"code_complexity", "dependency_changes", "test_coverage",
      "performance_impact", "historical_failures">>

Factors(c, d, t, p, h) ==
    [code_complexity |-> c, dependency_changes |-> d, test_coverage |-> t,
     performance_impact |-> p, historical_failures |-> h]

AssessmentFields ==
    {"overall_risk_score", "risk_level", "recommended_strategy",
     "key_concerns", "mitigation_steps", "confidence"}

\* An assessment dict: the keys it has, and their values.
\* overall_risk_score is a numerator over OverallDen, confidence is in points.
Assessment(has, score, level, strategy, concerns, steps, confidence) ==
    [has |-> has, overall_risk_score |-> score, risk_level |-> level,
     recommended_strategy |-> strategy, key_concerns |-> concerns,
     mitigation_steps |-> steps, confidence |-> confidence]

\* Before get_ai_risk_assessment has returned.
NoAssessment == Assessment({}, 0, "", "", <<>>, <<>>, 0)

\* The response text, as tokens:
\*   "FJ"  the fence ```json          "F"   a fence ```
\*   "LB"  a lone {                   "RB"  a lone }
\*   "P"   prose without braces or fences
\*   "J_*" a well-formed JSON object, from its { to its }
ObjectTokens == {"J_ok", "J_range", "J_strategy", "J_missing", "J_noscore"}
Tokens == {"FJ", "F", "LB", "RB", "P"} \cup ObjectTokens

\* The dict json.loads makes of each object.
Payload(tok) ==
    CASE tok = "J_ok" ->
           Assessment(AssessmentFields, (4 * OverallDen) \div 10, "medium", "canary",
                      <<"large diff">>, <<"watch error rate">>, (8 * Scale) \div 10)
      [] tok = "J_range" ->
           Assessment(AssessmentFields, (17 * OverallDen) \div 10, "high", "manual_approval",
                      <<"large diff">>, <<"watch error rate">>, (8 * Scale) \div 10)
      [] tok = "J_strategy" ->
           Assessment(AssessmentFields, (5 * OverallDen) \div 10, "critical", "rolling",
                      <<"large diff">>, <<"watch error rate">>, (8 * Scale) \div 10)
      [] tok = "J_missing" ->
           Assessment({"overall_risk_score", "risk_level"}, (2 * OverallDen) \div 10, "low", "",
                      <<>>, <<>>, 0)
      [] tok = "J_noscore" ->
           Assessment(AssessmentFields \ {"overall_risk_score"}, 0, "low", "blue_green",
                      <<>>, <<>>, (9 * Scale) \div 10)

\* What the service does with the request: the call raises, never answers,
\* answers with no choices, with a message whose content is None, or with text.
ServiceRaises == [kind |-> "raises", content |-> <<>>]
ServiceSilent == [kind |-> "silent", content |-> <<>>]
ServiceNoChoices == [kind |-> "no_choices", content |-> <<>>]
ServiceNoneContent == [kind |-> "none_content", content |-> <<>>]
ServiceText(c) == [kind |-> "text", content |-> c]

\* The tokens that hold a {, a }, the text ```.
HasOpenBrace == {"LB"} \cup ObjectTokens
HasCloseBrace == {"RB"} \cup ObjectTokens
HasFence == {"F", "FJ"}

\* 1-based position of the first token among toks at or after from, of the
\* last token among toks; 0 when there is none.
First(content, toks, from) ==
    LET hits == {i \in from..Len(content) : content[i] \in toks}
    IN  IF hits = {} THEN 0 ELSE CHOOSE i \in hits : \A j \in hits : i <= j

Last(content, toks) ==
    LET hits == {i \in 1..Len(content) : content[i] \in toks}
    IN  IF hits = {} THEN 0 ELSE CHOOSE i \in hits : \A j \in hits : i >= j

\* s[:-1] on text: a one-character token goes, a longer one loses its last
\* character and is no longer what it was ("X").
DropLastChar(content) ==
    IF content = <<>> THEN <<>>
    ELSE LET n == Len(content)
         IN  IF content[n] \in {"LB", "RB"} THEN SubSeq(content, 1, n - 1)
             ELSE Append(SubSeq(content, 1, n - 1), "X")

\* "Extract JSON from response": between ```json and the next ```, else from
\* the first { to the last }, else the text as it is.
ExtractJson(content) ==
    LET fj == First(content, {"FJ"}, 1)
    IN  IF fj # 0
        THEN LET json_start == fj
                 fence == First(content, HasFence, fj + 1)
             IN  IF fence # 0 THEN Slice(content, json_start, fence - 1)
                 \* find() answered -1: content[json_start:-1]
                 ELSE DropLastChar(Slice(content, json_start, Len(content)))
        ELSE LET open == First(content, HasOpenBrace, 1)
             IN  IF open # 0
                 THEN LET json_start == open - 1
                          \* rfind() + 1, which is 0 when there is no }
                          json_end == Last(content, HasCloseBrace)
                      IN  Slice(content, json_start, json_end)
                 ELSE content

\* json.loads: one object, or {}; anything else raises JSONDecodeError.
JsonLoads(text) ==
    IF Len(text) = 1 /\ text[1] \in ObjectTokens THEN Return(Payload(text[1]))
    ELSE IF text = <<"LB", "RB">> THEN Return(Assessment({}, 0, "", "", <<>>, <<>>, 0))
    ELSE Raise("JSONDecodeError", NoAssessment)

\* The try block: the call, response.choices[0].message.content, the
\* extraction and json.loads.
RemoteAssessment(svc) ==
    CASE svc.kind = "raises" -> Raise("APIError", NoAssessment)
      [] svc.kind = "no_choices" -> Raise("IndexError", NoAssessment)
      [] svc.kind = "none_content" -> Raise("TypeError", NoAssessment)
      [] OTHER -> JsonLoads(ExtractJson(svc.content))

\* The comparison with the boundary value on the wrong side.
BelowOrAt(score, tenths) == 10 * score <= tenths * OverallDen

\* overall_risk < 0.3, overall_risk < 0.7 on a numerator over OverallDen.
Below(score, tenths) == 10 * score < tenths * OverallDen

\* "Fallback to rule-based assessment"
FallbackAssessment(rf) ==
    LET overall_risk == SeqSum([i \in 1..Len(FactorNames) |-> rf[FactorNames[i]]])
        low == Below(overall_risk, 3)
        medium == Below(overall_risk, 7)
    IN  Assessment(AssessmentFields, overall_risk,
                   IF low THEN "low" ELSE IF medium THEN "medium" ELSE "high",
                   IF low THEN "blue_green" ELSE IF medium THEN "canary" ELSE "manual_approval",
                   <<"AI analysis unavailable">>, <<"Manual review recommended">>,
                   Scale \div 2)

\* An except clause that covers the call alone: what the extraction or
\* json.loads raises is not turned into the fallback verdict.
AssessmentExceptCallOnly(rf, svc) ==
    LET r == RemoteAssessment(svc)
    IN  IF r.ok \/ svc.kind # "raises" THEN r.value ELSE FallbackAssessment(rf)

get_ai_risk_assessment(rf, svc) ==
    LET r == RemoteAssessment(svc)
    IN  IF r.ok THEN r.value ELSE FallbackAssessment(rf)

----------------------------------------------------------------------------
(* recommend_deployment_strategy, the output files, save_deployment_record *)

\* The keys recommend_deployment_strategy reads; a missing one is a KeyError.
RecommendReads ==
    {"recommended_strategy", "risk_level", "confidence", "key_concerns", "mitigation_steps"}

recommend_deployment_strategy(a) ==
    IF RecommendReads \subseteq a.has THEN Return(a.recommended_strategy)
    ELSE Raise("KeyError", "")

\* The three files run_analysis writes; written holds those that exist.
NoOutputs == [written |-> {}, strategy |-> "", risk_score |-> 0, assessment |-> NoAssessment]

\* deployment-strategy.txt is written first; str(assessment['overall_risk_score'])
\* is a KeyError without the key, which leaves the other two unwritten.
WriteOutputFiles(strategy, a) ==
    IF "overall_risk_score" \in a.has
    THEN Return([written |-> {"deployment-strategy.txt", "risk-score.txt",
                              "deployment-assessment.json"},
                 strategy |-> strategy, risk_score |-> a.overall_risk_score,
                 assessment |-> a])
    ELSE Raise("KeyError", [NoOutputs EXCEPT !.written = {"deployment-strategy.txt"},
                                             !.strategy = strategy])

\* The record of this run: timestamp now, no status key.
RecordMarkedFailed(rf, a) == Record(0, "iso", 0, "failed", rf, a)

NewRecord(rf, a) == Record(0, "iso", 0, "absent", rf, a)

\* The truncation keeping the first 50 records, [:50], instead of the last.
AppendAndKeepOldest(ds, record) ==
    LET all == Append(ds, record)
    IN  IF Len(all) > MaxDeployments THEN SubSeq(all, 1, MaxDeployments) ELSE all

\* append, then "Keep only last 50 deployments".
AppendAndTruncate(ds, record) ==
    LET all == Append(ds, record)
    IN  IF Len(all) > MaxDeployments
        THEN SubSeq(all, Len(all) - MaxDeployments + 1, Len(all))
        ELSE all

----------------------------------------------------------------------------
(* The process *)

\* The process is alive: not killed, not ended by an uncaught exception
\* (pc then stays where it was raised), not finished.
Running == ~killed /\ error = "none" /\ pc # "done"

Crash(e) == pc' = pc /\ error' = e

\* __init__: self.risk_factors = {}, self.deployment_history = load_deployment_history()
Load ==
    /\ Running /\ pc = "init"
    /\ LET r == load_deployment_history(file)
       IN  IF r.ok
           THEN /\ deployment_history' = r.value
                /\ pc' = "calc"
                /\ error' = error
           ELSE /\ Crash(r.exc)
                /\ deployment_history' = deployment_history
    /\ UNCHANGED <<file, startFile, git, service, risk_factors, assessment, outputs, killed>>

\* calculate_risk_score up to the dict of the five factors.
CalculateRiskFactors ==
    /\ Running /\ pc = "calc"
    /\ LET h == analyze_deployment_history(deployment_history)
       IN  IF h.ok
           THEN /\ risk_factors' = Factors(analyze_code_complexity(git),
                                           check_dependency_changes(git),
                                           evaluate_test_coverage(git),
                                           assess_performance_impact(git),
                                           h.value)
                /\ pc' = "assess"
                /\ error' = error
           ELSE /\ Crash(h.exc)
                /\ risk_factors' = risk_factors
    /\ UNCHANGED <<file, startFile, deployment_history, git, service, assessment, outputs, killed>>

\* get_ai_risk_assessment sends the request; the call carries no timeout.
AICall ==
    /\ Running /\ pc = "assess"
    /\ pc' = "waiting"
    /\ UNCHANGED <<file, startFile, deployment_history, git, service, risk_factors,
                   assessment, outputs, error, killed>>

\* The service answers: the rest of the try block, or the except block when
\* any of it raises.
AIResponse ==
    /\ Running /\ pc = "waiting"
    /\ service.kind \in {"no_choices", "none_content", "text"}
    /\ assessment' = get_ai_risk_assessment(risk_factors, service)
    /\ pc' = "recommend"
    /\ UNCHANGED <<file, startFile, deployment_history, git, service, risk_factors,
                   outputs, error, killed>>

\* The call raises: the except block.
AIError ==
    /\ Running /\ pc = "waiting"
    /\ service.kind = "raises"
    /\ assessment' = get_ai_risk_assessment(risk_factors, service)
    /\ pc' = "recommend"
    /\ UNCHANGED <<file, startFile, deployment_history, git, service, risk_factors,
                   outputs, error, killed>>

\* run_analysis: recommend_deployment_strategy, then the three output files.
RecommendAndWrite ==
    /\ Running /\ pc = "recommend"
    /\ LET s == recommend_deployment_strategy(assessment)
           w == WriteOutputFiles(s.value, assessment)
       IN  IF ~s.ok
           THEN Crash(s.exc) /\ outputs' = outputs
           ELSE IF ~w.ok
           THEN Crash(w.exc) /\ outputs' = w.value
           ELSE pc' = "save" /\ error' = error /\ outputs' = w.value
    /\ UNCHANGED <<file, startFile, deployment_history, git, service, risk_factors,
                   assessment, killed>>

\* save_deployment_record up to open(..., 'w'), which empties the file.
SaveOpen ==
    /\ Running /\ pc = "save"
    /\ deployment_history' = AppendAndTruncate(deployment_history,
                                               NewRecord(risk_factors, assessment))
    /\ file' = TruncatedFile
    /\ pc' = "dumping"
    /\ UNCHANGED <<startFile, git, service, risk_factors, assessment, outputs, error, killed>>

\* json.dump: the next record reaches the file.
SaveDump ==
    /\ Running /\ pc = "dumping"
    /\ Len(file.deployments) < Len(deployment_history)
    /\ file' = PartialFile(SubSeq(deployment_history, 1, Len(file.deployments) + 1))
    /\ UNCHANGED <<pc, startFile, deployment_history, git, service, risk_factors,
                   assessment, outputs, error, killed>>

\* The document is closed and the file with it; run_analysis returns.
SaveClose ==
    /\ Running /\ pc = "dumping"
    /\ Len(file.deployments) = Len(deployment_history)
    /\ file' = JsonFile(deployment_history)
    /\ pc' = "done"
    /\ UNCHANGED <<startFile, deployment_history, git, service, risk_factors,
                   assessment, outputs, error, killed>>

\* The process is killed from outside.
Kill ==
    /\ Running
    /\ killed' = TRUE
    /\ UNCHANGED <<pc, file, startFile, deployment_history, git, service, risk_factors,
                   assessment, outputs, error>>

Next ==
    \/ Load
    \/ CalculateRiskFactors
    \/ AICall
    \/ AIResponse
    \/ AIError
    \/ RecommendAndWrite
    \/ SaveOpen
    \/ SaveDump
    \/ SaveClose
    \/ Kill

----------------------------------------------------------------------------
(* Environments *)

\* The process at its start, in one of the given environments.
Start(files, gits, services) ==
    /\ pc = "init"
    /\ file \in files
    /\ startFile = file
    /\ deployment_history = <<>>
    /\ git \in gits
    /\ service \in services
    /\ risk_factors = Factors(0, 0, 0, 0, 0)
    /\ assessment = NoAssessment
    /\ outputs = NoOutputs
    /\ error = "none"
    /\ killed = FALSE

\* A record some earlier run, or another tool, left in the file.
OldRecord(i, dated, age, st) ==
    Record(i, dated, age, st, Factors(0, 0, 0, 0, 0), FallbackAssessment(Factors(0, 0, 0, 0, 0)))

\* The kinds of record the small histories are made of: a failure of
\* yesterday, a success of yesterday, a failure of exactly seven days ago,
\* a record without timestamp, a record whose timestamp is no date.
RecordKinds ==
    { <<"iso", 1, "failed">>, <<"iso", 1, "absent">>, <<"iso", RecentDays, "failed">>,
      <<"absent", 0, "absent">>, <<"bad", 0, "failed">> }

HistoryOf(kinds) ==
    [i \in 1..Len(kinds) |-> OldRecord(i, kinds[i][1], kinds[i][2], kinds[i][3])]

SmallHistories == {HistoryOf(k) : k \in SeqsUpTo(RecordKinds, MaxSmallHistory)}

\* A history of n records of the last days, none failed.
LongHistory(n) == [i \in 1..n |-> OldRecord(i, "iso", (n - i) % RecentDays, "absent")]

ChangeSets == {fs \in SUBSET FileCatalogue : Cardinality(fs) <= MaxFiles}

Gits == {GitFails} \cup {GitAnswers(fs) : fs \in ChangeSets}

\* Responses of the kinds seen from such a service.
SampleTexts ==
    { <<"J_ok">>, <<"P", "FJ", "J_ok", "F", "P">>, <<"P", "J_range", "P">>,
      <<"J_strategy">>, <<"J_missing">>, <<"FJ", "J_noscore", "F">>,
      <<"LB", "RB">>, <<"P", "J_ok", "P", "RB">>, <<"P">> }

Services ==
    {ServiceRaises, ServiceSilent, ServiceNoChoices, ServiceNoneContent}
        \cup {ServiceText(c) : c \in SampleTexts}

Files ==
    {AbsentFile, UnreadableFile, CorruptFile, TruncatedFile}
        \cup {JsonFile(h) : h \in SmallHistories}

Init == Start(Files, Gits, Services)

Spec == Init /\ [][Next]_vars

----------------------------------------------------------------------------
(* get_ai_risk_assessment alone, on the fallback path *)

GridScores == {(k * Scale) \div GridSteps : k \in 0..GridSteps}

\* The process at the call of get_ai_risk_assessment(risk_factors).
AtAssessment(factors, services) ==
    /\ pc = "assess"
    /\ file = AbsentFile
    /\ startFile = AbsentFile
    /\ deployment_history = <<>>
    /\ git = GitFails
    /\ service \in services
    /\ risk_factors \in factors
    /\ assessment = NoAssessment
    /\ outputs = NoOutputs
    /\ error = "none"
    /\ killed = FALSE

InitFallback ==
    AtAssessment({Factors(c, d, t, p, h) : c \in GridScores, d \in GridScores,
                      t \in GridScores, p \in GridScores, h \in GridScores},
                 {ServiceRaises})

NextFallback == AICall \/ AIError

SpecFallback == InitFallback /\ [][NextFallback]_vars

FactorSum(rf) ==
    rf.code_complexity + rf.dependency_changes + rf.test_coverage
        + rf.performance_impact + rf.historical_failures

----------------------------------------------------------------------------
(* The pipeline on history files of every length up to MaxLoaded *)

InitHistory ==
    Start({AbsentFile} \cup {JsonFile(LongHistory(n)) : n \in 0..MaxLoaded},
          {GitFails, GitAnswers({})},
          {ServiceRaises, ServiceText(<<"J_ok">>)})

SpecHistory == InitHistory /\ [][Next]_vars

\* The list the history file held when the process started.
LoadedAtStart == IF startFile.kind = "json" THEN startFile.deployments ELSE <<>>

\* C2: after save_deployment_record the 'deployments' list, in memory and
\* (once the file is written) on disk, has at most 50 elements and is the
\* last min(50, n + 1) elements of the loaded list followed by the new
\* record, in that order: the new record is last, the oldest are evicted.
C2_KeepsLastFifty ==
    pc \in {"dumping", "done"} =>
        LET all == Append(LoadedAtStart, NewRecord(risk_factors, assessment))
            k == Min(MaxDeployments, Len(LoadedAtStart) + 1)
            h == deployment_history
        IN  /\ Len(h) = k
            /\ Len(h) <= MaxDeployments
            /\ \A i \in 1..k : h[i] = all[Len(all) - k + i]
            /\ h[k].id = 0
            /\ pc = "done" => file = JsonFile(h)

\* A run that loaded more than 50 records and has saved: 50 are left, the
\* first of them the record that stood 49 places from the end of the file.
C2_LoadedMoreThanFifty ==
    /\ pc = "done"
    /\ Len(LoadedAtStart) > MaxDeployments
    /\ file.kind = "json"
    /\ Len(file.deployments) = MaxDeployments
    /\ file.deployments[1].id = Len(LoadedAtStart) - MaxDeployments + 2
    /\ file.deployments[MaxDeployments].id = 0

----------------------------------------------------------------------------
(* get_ai_risk_assessment alone, on every response of at most MaxLen tokens *)

\* Factors of a low, a medium and a high mean.
SampleFactors ==
    { Factors(0, 0, 0, 0, 0),
      Factors(Scale \div 2, 0, Scale \div 2, 0, Scale),
      Factors(Scale, Scale, Scale, Scale \div 2, Scale \div 2) }

InitAdvisory ==
    AtAssessment(SampleFactors,
                 {ServiceRaises, ServiceNoChoices, ServiceNoneContent}
                     \cup {ServiceText(c) : c \in SeqsUpTo(Tokens, MaxLen)})

NextAdvisory == AICall \/ AIResponse \/ AIError

SpecAdvisory == InitAdvisory /\ [][NextAdvisory]_vars

\* The response holds nothing json.loads could accept: no object, and no
\* { directly followed by }.
HoldsNoJson(c) ==
    /\ \A i \in 1..Len(c) : c[i] \notin ObjectTokens
    /\ \A i \in 1..(Len(c) - 1) : ~(c[i] = "LB" /\ c[i + 1] = "RB")

\* The fallback verdict for the factors rf, spelled out.
IsFallbackVerdict(a, rf) ==
    /\ a.has = AssessmentFields
    /\ a.key_concerns = <<"AI analysis unavailable">>
    /\ a.mitigation_steps = <<"Manual review recommended">>
    /\ 2 * a.confidence = Scale
    /\ a.overall_risk_score = FactorSum(rf)
    /\ a.risk_level = FallbackAssessment(rf).risk_level
    /\ a.recommended_strategy = FallbackAssessment(rf).recommended_strategy

\* C3: whenever the remote call raises, or taking the content out of the
\* response, extracting the payload or parsing it fails, get_ai_risk_assessment
\* returns the fallback verdict (the two placeholder texts, confidence 0.5,
\* score, level and strategy of the deterministic rule) and no exception
\* leaves it.  In particular every response that holds no JSON at all ends there.
C3_FailureGivesFallback ==
    pc = "recommend" =>
        /\ error = "none"
        /\ ~RemoteAssessment(service).ok => IsFallbackVerdict(assessment, risk_factors)
        /\ service.kind # "text" => IsFallbackVerdict(assessment, risk_factors)
        /\ service.kind = "text" /\ HoldsNoJson(service.content)
              => IsFallbackVerdict(assessment, risk_factors)

\* The service answered with text that holds a payload, the parse of the
\* extracted span failed, and the fallback verdict was returned.
C3_UnparsableTextFellBack ==
    /\ pc = "recommend"
    /\ service.kind = "text"
    /\ \E i \in 1..Len(service.content) : service.content[i] \in ObjectTokens
    /\ ~RemoteAssessment(service).ok
    /\ IsFallbackVerdict(assessment, risk_factors)
    /\ assessment.risk_level = "medium"

\* The first object of the response.
FirstObject(c) == c[First(c, ObjectTokens, 1)]

\* A response with a well-formed payload followed by text that holds braces
\* or a second payload: either a ```json block holding one object, closed,
\* or prose up to the first object; and a token with a brace further on.
PayloadThenBraces(c) ==
    LET fj == First(c, {"FJ"}, 1)
        obj == First(c, ObjectTokens, 1)
        braces == {"LB", "RB"} \cup ObjectTokens
    IN  /\ obj # 0
        /\ IF fj # 0
           THEN /\ obj = fj + 1
                /\ Len(c) >= obj + 1
                /\ c[obj + 1] = "F"
                /\ \E k \in (obj + 2)..Len(c) : c[k] \in braces
           ELSE /\ \A j \in 1..(obj - 1) : c[j] = "P"
                /\ \E k \in (obj + 1)..Len(c) : c[k] \in braces

\* C10: for every response that holds a well-formed payload followed by
\* further prose with braces, or by a second payload, the first payload is
\* what get_ai_risk_assessment returns, and the fallback is not taken.
C10_FirstPayloadIsExtracted ==
    pc = "recommend" /\ service.kind = "text" /\ PayloadThenBraces(service.content)
        => assessment = Payload(FirstObject(service.content))

----------------------------------------------------------------------------
(* The whole pipeline *)

\* The steps the process takes by itself: every step but the kill.
ProcessStep ==
    \/ Load
    \/ CalculateRiskFactors
    \/ AICall
    \/ AIResponse
    \/ AIError
    \/ RecommendAndWrite
    \/ SaveOpen
    \/ SaveDump
    \/ SaveClose

\* A process that is not killed keeps running: a step it can take, it takes.
\* Nothing obliges the service to answer or the outside to kill.
FairSpec == Init /\ [][Next]_vars /\ WF_vars(ProcessStep)

Strategies == {"blue_green", "canary", "manual_approval"}
RiskLevels == {"low", "medium", "high"}

\* A RiskAssessment of the data model: every field, every value in its set.
IsValidAssessment(a) ==
    /\ a.has = AssessmentFields
    /\ a.overall_risk_score \in 0..OverallDen
    /\ a.risk_level \in RiskLevels
    /\ a.recommended_strategy \in Strategies
    /\ a.confidence \in 0..Scale

\* C4: whatever the remote call does (it fails, or it succeeds with any
\* parseable payload, one lacking fields or carrying values outside the
\* allowed sets included), the run ends without an uncaught error, having
\* written a recommended_strategy among blue_green, canary, manual_approval
\* and a valid RiskAssessment.
C4_AlwaysAValidRecommendation ==
    /\ pc = "recommend" => error = "none"
    /\ pc \in {"save", "dumping", "done"} =>
          /\ "deployment-strategy.txt" \in outputs.written
          /\ outputs.strategy \in Strategies
          /\ IsValidAssessment(outputs.assessment)

\* C5: when the history file is missing, unreadable or corrupt,
\* load_deployment_history raises nothing and yields the empty history, and
\* the run goes on.
C5_BadFileLoadsEmpty ==
    startFile.kind # "json" =>
        /\ pc = "init" => error = "none"
        /\ pc = "calc" => deployment_history = <<>>

\* C6: a process killed during save_deployment_record leaves in the history
\* file either the complete document it found at its start or the complete
\* new one, never an empty or partly written one.
C6_SaveIsAtomic ==
    killed /\ pc \in {"save", "dumping"} =>
        \/ file = startFile
        \/ file = JsonFile(deployment_history)

\* C7: the call is bounded by a timeout: when the service never answers,
\* get_ai_risk_assessment still returns, with the fallback verdict
\* (confidence 0.5), unless the process is killed.
C7_SilentServiceStillReturns ==
    (pc = "waiting" /\ service.kind = "silent")
        ~> (killed \/ (pc = "recommend" /\ IsFallbackVerdict(assessment, risk_factors)))

FactorsInRange(rf) ==
    \A i \in 1..Len(FactorNames) : rf[FactorNames[i]] \in 0..Scale

\* The record of this run, where a list holds it, has its scores in [0,1].
RecordsInRange(ds) ==
    \A i \in 1..Len(ds) :
        ds[i].id = 0 =>
            /\ ds[i].risk_score \in 0..OverallDen
            /\ ds[i].assessment.overall_risk_score \in 0..OverallDen
            /\ FactorsInRange(ds[i].risk_factors)

\* C8: on the remote and on the fallback path, the five factor scores and
\* the overall_risk_score that are reported (the output files) and recorded
\* (the history, in memory and on disk) lie in [0,1].
C8_ScoresInUnitInterval ==
    /\ FactorsInRange(risk_factors)
    /\ pc \in {"recommend", "save", "dumping", "done"} /\ "overall_risk_score" \in assessment.has
          => assessment.overall_risk_score \in 0..OverallDen
    /\ "risk-score.txt" \in outputs.written => outputs.risk_score \in 0..OverallDen
    /\ RecordsInRange(deployment_history)
    /\ RecordsInRange(file.deployments)

\* A changed file of a counted language that open() fails on.
UnreadableSource(g) ==
    g.ok /\ \E f \in g.files : f.ext \in {"py", "js", "ts"} /\ ~f.readable

\* A record analyze_deployment_history cannot date.
UndatedRecord(ds) == \E i \in 1..Len(ds) : TimestampError(ds[i]) # "none"

\* C9: a failure inside a calculator (git failing, a changed file that
\* cannot be read, a history record with a missing or unparseable timestamp)
\* makes that calculator return its default (0.5 complexity, 0.0 dependency,
\* 0.5 test coverage, 0.0 performance, 0.0 historical) and never aborts
\* calculate_risk_score.
C9_CalculatorsDegrade ==
    /\ pc = "calc" => error = "none"
    /\ pc \in {"assess", "waiting", "recommend", "save", "dumping", "done"} =>
          /\ ~git.ok => /\ 2 * risk_factors.code_complexity = Scale
                        /\ risk_factors.dependency_changes = 0
                        /\ 2 * risk_factors.test_coverage = Scale
                        /\ risk_factors.performance_impact = 0
          /\ UnreadableSource(git) => 2 * risk_factors.code_complexity = Scale
          /\ UndatedRecord(LoadedAtStart) => risk_factors.historical_failures = 0

----------------------------------------------------------------------------
(* End-to-end: no previous revision, no advisory verdict *)

\* The records of the trailing 7 days, and the failed ones among them, of a
\* list whose records are all dated.
RecentCount(ds) == Cardinality({i \in 1..Len(ds) : ds[i].age < RecentDays})
FailedRecentCount(ds) ==
    Cardinality({i \in 1..Len(ds) : ds[i].age < RecentDays /\ ds[i].status = "failed"})

\* The run is over, git could not diff against HEAD~1, the remote verdict
\* failed, and the history found at the start had fewer than 50 records.
FirstCommitRunDone ==
    /\ pc = "done"
    /\ ~git.ok
    /\ ~RemoteAssessment(service).ok
    /\ Len(LoadedAtStart) < MaxDeployments

\* The diff-based factors at their failure defaults, the score their mean
\* with the historical factor (the sum, over OverallDen), the strategy the thresholds give that mean,
\* and one record more in the history, in memory and on disk.
FirstCommitOutcome ==
    LET sum == FactorSum(risk_factors)
        strategy == IF 10 * sum < 15 * Scale THEN "blue_green"
                    ELSE IF 10 * sum < 35 * Scale THEN "canary"
                    ELSE "manual_approval"
    IN  /\ 2 * risk_factors.code_complexity = Scale
        /\ risk_factors.dependency_changes = 0
        /\ 2 * risk_factors.test_coverage = Scale
        /\ risk_factors.performance_impact = 0
        /\ assessment.overall_risk_score = sum
        /\ assessment.recommended_strategy = strategy
        /\ outputs.strategy = strategy
        /\ Len(deployment_history) = Len(LoadedAtStart) + 1
        /\ file = JsonFile(Append(LoadedAtStart, NewRecord(risk_factors, assessment)))

----------------------------------------------------------------------------
(* The diff-based calculators on a change set without changes *)

\* The five factors have been computed.
FactorsComputed == pc \notin {"init", "calc"}

\* The four diff-based factors are 0.0.
DiffFactorsZero ==
    /\ risk_factors.code_complexity = 0
    /\ risk_factors.dependency_changes = 0
    /\ risk_factors.test_coverage = 0
    /\ risk_factors.performance_impact = 0

\* The four diff-based factors are the values of the except branches.
DiffFactorsDefault ==
    /\ 2 * risk_factors.code_complexity = Scale
    /\ risk_factors.dependency_changes = 0
    /\ 2 * risk_factors.test_coverage = Scale
    /\ risk_factors.performance_impact = 0

\* C12 as stated: with nothing changed, the case of no previous revision
\* included, each of the four diff-based calculators returns 0.0.
C12_NoChangesIsZeroRisk ==
    FactorsComputed /\ (~git.ok \/ git.files = {}) => DiffFactorsZero

\* C12, amended: when git answers with an empty diff and file list the four
\* calculators return 0.0; when git fails, as it does without a previous
\* revision, they return 0.5, 0.0, 0.5 and 0.0.
C12_EmptyDiffIsZeroFailedGitIsDefault ==
    FactorsComputed =>
        /\ git.ok /\ git.files = {} => DiffFactorsZero
        /\ ~git.ok => DiffFactorsDefault

\* git answered with nothing changed and the factors were computed.
C12_EmptyChangeSetScored ==
    /\ pc = "assess"
    /\ git.ok /\ git.files = {}
    /\ DiffFactorsZero

----------------------------------------------------------------------------
(* evaluate_test_coverage over change sets of source and test files *)

MaxChanged == 4

\* Three source files, three files with test or spec in their path (one of
\* them no source file, one a source file that merely contains "test"), and
\* a file that is neither.
CoverageCatalogue ==
    { ChangedFile("src/app.py", "py", FALSE, FALSE, TRUE, 40, FALSE, {}, 10),
      ChangedFile("web/ui.js", "js", FALSE, FALSE, TRUE, 20, FALSE, {}, 10),
      ChangedFile("web/api.ts", "ts", FALSE, FALSE, TRUE, 20, FALSE, {}, 10),
      ChangedFile("tests/test_app.py", "py", TRUE, FALSE, TRUE, 10, FALSE, {}, 10),
      ChangedFile("docs/spec.md", "md", TRUE, FALSE, TRUE, 0, FALSE, {}, 10),
      ChangedFile("src/latest.py", "py", TRUE, FALSE, TRUE, 10, FALSE, {}, 10),
      ChangedFile("README.md", "md", FALSE, FALSE, TRUE, 0, FALSE, {}, 10) }

CoverageGits ==
    {GitFails} \cup
    {GitAnswers(fs) : fs \in {c \in SUBSET CoverageCatalogue : Cardinality(c) <= MaxChanged}}

InitCoverage == Start({AbsentFile}, CoverageGits, {ServiceRaises})

NextCoverage == Load \/ CalculateRiskFactors

SpecCoverage == InitCoverage /\ [][NextCoverage]_vars

\* The changed files counted as tests and as sources.
TestCount == Cardinality({f \in git.files : f.testlike})
SourceCount ==
    Cardinality({f \in git.files : ~f.testlike /\ f.ext \in {"py", "js", "ts"}})

\* With source files changed the risk is max(0, 1 - tests/sources).
CoverageRatioRule ==
    SourceCount > 0 =>
        risk_factors.test_coverage * SourceCount = Max(0, SourceCount - TestCount) * Scale

\* C13 as stated: where the calculator does not fail, the risk is 0.0
\* exactly when no source file changed, and max(0, 1 - tests/sources) when
\* source files changed.
C13_ZeroExactlyWithoutSource ==
    FactorsComputed /\ git.ok =>
        /\ risk_factors.test_coverage = 0 <=> SourceCount = 0
        /\ CoverageRatioRule

\* C13, amended: where the calculator does not fail, the risk is 0.0 when no
\* source file changed, whatever the number of test files, and
\* max(0, 1 - tests/sources) when source files changed; it is 0.0 exactly
\* when no source file changed or the test files are at least as many as
\* the source files.
C13_CoverageRisk ==
    FactorsComputed /\ git.ok =>
        /\ SourceCount = 0 => risk_factors.test_coverage = 0
        /\ CoverageRatioRule
        /\ risk_factors.test_coverage = 0 <=> (SourceCount = 0 \/ TestCount >= SourceCount)

\* Source files changed, as many test files with them, and the risk is 0.0.
C13_CoveredSourceChange ==
    /\ FactorsComputed /\ git.ok
    /\ SourceCount > 0
    /\ TestCount >= SourceCount
    /\ risk_factors.test_coverage = 0

----------------------------------------------------------------------------
(* analyze_deployment_history over histories of well-formed records *)

MaxRateHistory == 3

\* Well-formed records: a timestamp of today, of six, seven or eight days
\* ago, and a status of failed, success or none.
WellFormedKinds ==
    {<<"iso", age, st>> : age \in {0, RecentDays - 1, RecentDays, RecentDays + 1},
                          st \in {"failed", "success", "absent"}}

RateHistories == {HistoryOf(k) : k \in SeqsUpTo(WellFormedKinds, MaxRateHistory)}

InitHistoryRate == Start({JsonFile(h) : h \in RateHistories}, {GitFails}, {ServiceRaises})

NextHistoryRate == Load \/ CalculateRiskFactors

SpecHistoryRate == InitHistoryRate /\ [][NextHistoryRate]_vars

\* C14: on a history of well-formed records the historical-failure factor
\* is 0.0 when no record lies in the trailing 7 days, otherwise the failed
\* recent records divided by the recent records; dropping the older
\* records from the history gives the same result.
C14_FailureRateOfRecentRecords ==
    FactorsComputed =>
        /\ RecentCount(deployment_history) = 0 => risk_factors.historical_failures = 0
        /\ risk_factors.historical_failures * RecentCount(deployment_history)
              = FailedRecentCount(deployment_history) * Scale
        /\ analyze_deployment_history(SelectSeq(deployment_history, IsRecent))
              = Return(risk_factors.historical_failures)

\* Two recent records, one of them failed, and an older failed record:
\* the factor is 0.5.
C14_OldFailureNotCounted ==
    /\ FactorsComputed
    /\ RecentCount(deployment_history) = 2
    /\ FailedRecentCount(deployment_history) = 1
    /\ \E i \in 1..Len(deployment_history) :
          deployment_history[i].age >= RecentDays /\ deployment_history[i].status = "failed"
    /\ 2 * risk_factors.historical_failures = Scale

----------------------------------------------------------------------------
(* Run after run on the history the engine writes itself *)

MaxRuns == 3

\* The records as the next run finds them: numbered by position, each
\* older by the days gone by since (no age past the window matters).
Reloaded(ds, days) ==
    [i \in 1..Len(ds) |-> [ds[i] EXCEPT !.id = i, !.age = Min(@ + days, RecentDays + 1)]]

\* main() is started again, the same day or a week later, once the
\* previous process has ended (returned, raised or was killed).  The history
\* file and the output files are as that process left them.
Restart ==
    /\ pc = "done" \/ killed \/ error # "none"
    /\ Len(file.deployments) < MaxRuns
    /\ \E days \in {0, RecentDays} :
          file' = [file EXCEPT !.deployments = Reloaded(@, days)]
    /\ startFile' = file'
    /\ pc' = "init"
    /\ deployment_history' = <<>>
    /\ git' \in {GitFails, GitAnswers({f \in FileCatalogue : f.name = "src/app.py"})}
    /\ service' \in {ServiceRaises, ServiceText(<<"J_ok">>)}
    /\ risk_factors' = Factors(0, 0, 0, 0, 0)
    /\ assessment' = NoAssessment
    /\ error' = "none"
    /\ killed' = FALSE
    /\ UNCHANGED outputs

\* The first run finds no history file, or one with an empty list.
InitRuns ==
    Start({AbsentFile, JsonFile(<<>>)},
          {GitFails, GitAnswers({f \in FileCatalogue : f.name = "src/app.py"})},
          {ServiceRaises, ServiceText(<<"J_ok">>)})

NextRuns ==
    \/ Load
    \/ CalculateRiskFactors
    \/ AICall
    \/ AIResponse
    \/ AIError
    \/ RecommendAndWrite
    \/ SaveOpen
    \/ SaveDump
    \/ SaveClose
    \/ Kill
    \/ Restart

SpecRuns == InitRuns /\ [][NextRuns]_vars

\* Records as save_deployment_record makes them: dated, without status.
EngineWritten(ds) ==
    \A i \in 1..Len(ds) : ds[i].dated = "iso" /\ ds[i].status = "absent"

\* C15: over runs that start from a missing or empty history file written
\* by save_deployment_record alone, no record in the file or in memory has a
\* status, analyze_deployment_history never raises, and the
\* historical_failures factor of every run is 0.0.
C15_OwnHistoryNeverFails ==
    /\ EngineWritten(file.deployments)
    /\ EngineWritten(deployment_history)
    /\ pc = "calc" => error = "none"
    /\ FactorsComputed => risk_factors.historical_failures = 0

\* A later run has loaded two records of earlier runs, one at least of the
\* last seven days, and computed its factors.
C15_LaterRunWithRecentRecords ==
    /\ FactorsComputed
    /\ Len(LoadedAtStart) >= 2
    /\ RecentCount(LoadedAtStart) >= 1
    /\ risk_factors.historical_failures = 0

============================================================================
